---- MODULE Spec2Model ----
(***************************************************************************)
(* Travel-rule compliance calculator: calculateCompliance and the three    *)
(* functions it calls (extractRequiredFieldsWithOrLogic,                   *)
(* analyzeFieldDifferencesWithOrGroups, determineComplianceStatus), one    *)
(* action per step of an evaluation. The specifications Spec and SpecGen    *)
(* run one evaluation per behaviour, SpecSeq a sequence of evaluations.    *)
(*                                                                         *)
(* JavaScript values are modelled as follows:                              *)
(*   string[]            a sequence of strings                             *)
(*   Set<string>         a duplicate-free sequence in insertion order      *)
(*   { [id]: value }     the sequence of its entries in insertion order    *)
(*   `or_group_${n}`     the number n                                      *)
(*   optional property   a record field that is absent from the record    *)
(*   undefined           the record Undefined                              *)
(***************************************************************************)
EXTENDS Integers, Sequences, FiniteSets, TLC

VARIABLES
  pc,                        \* position inside calculateCompliance
  input,                     \* TransactionInput
  sumsubConfig,              \* countryConfigs[input.sumsub_vasp_country]
  counterpartyConfig,        \* countryConfigs[input.counterparty_vasp_country]
  sumsubThresholdMet,
  counterpartyThresholdMet,
  sumsubReqs,                \* JurisdictionRequirements applied to the origin
  counterpartyReqs,          \* JurisdictionRequirements applied to the counterparty
  sumsubRequiredFields,
  counterpartyRequiredFields,
  sumsubOrGroups,
  counterpartyOrGroups,
  fieldMatches,              \* locals of analyzeFieldDifferencesWithOrGroups
  matchedSumsubFields,
  matchedCounterpartyFields,
  orGroupMatches,
  groupIndex,                \* position of the forEach over Object.entries(...)
  fieldAnalysis,             \* value returned by analyzeFieldDifferencesWithOrGroups
  complianceStatus,          \* value returned by determineComplianceStatus
  result,                    \* value returned by calculateCompliance
  error,                     \* exception thrown by calculateCompliance
  configTable,               \* the module-level object countryConfigs
  history                    \* input and outcome of the evaluations completed so far

vars == <<pc, input, sumsubConfig, counterpartyConfig, sumsubThresholdMet,
          counterpartyThresholdMet, sumsubReqs, counterpartyReqs,
          sumsubRequiredFields, counterpartyRequiredFields, sumsubOrGroups,
          counterpartyOrGroups, fieldMatches, matchedSumsubFields,
          matchedCounterpartyFields, orGroupMatches, groupIndex, fieldAnalysis,
          complianceStatus, result, error, configTable, history>>

(***************************************************************************)
(* JavaScript helpers                                                      *)
(***************************************************************************)
Undefined == [undefined |-> TRUE]

Range(s) == {s[i] : i \in 1..Len(s)}

\* Array.prototype.includes / Set.prototype.has on an insertion-ordered set
Has(s, x) == \E i \in 1..Len(s) : s[i] = x

\* Set.prototype.add: a no-op when the element is present, else appended
SetAdd(s, x) == IF Has(s, x) THEN s ELSE Append(s, x)

\* new Set(array): duplicates dropped, first-insertion order kept
RECURSIVE NewSet(_)
NewSet(a) ==
  IF a = <<>> THEN <<>>
  ELSE SetAdd(NewSet(SubSeq(a, 1, Len(a) - 1)), a[Len(a)])

\* Mutant of FilterNotIn: the negation of the filter predicate is lost
FilterIn(a, set) == SelectSeq(a, LAMBDA f : Has(set, f))

\* array.filter(field => !set.has(field))
FilterNotIn(a, set) == SelectSeq(a, LAMBDA f : ~Has(set, f))

(***************************************************************************)
(* Configuration data                                                      *)
(***************************************************************************)
And(fields) == [fields |-> fields, logic |-> "AND"]
Or(fields) == [fields |-> fields, logic |-> "OR"]

Requirements(groups, kyc) ==
  [requirements |-> groups, recommended_fields |-> <<>>,
   kyc_required |-> kyc, aml_required |-> TRUE, wallet_attribution |-> TRUE]

DeuOrFields == <<"id_document_number", "customer_id", "date_of_birth", "birthplace">>

countryConfigs ==
  [EU |->
     [currency |-> "EUR", threshold |-> 1000,
      individual |->
        [below_threshold |-> Requirements(
           <<And(<<"full_name", "wallet_address", "customer_id">>)>>, FALSE),
         above_threshold |-> Requirements(
           <<And(<<"full_name", "id_document_number", "date_of_birth",
                   "residential_address", "wallet_address", "customer_id">>)>>, TRUE)],
      company |->
        [below_threshold |-> Requirements(
           <<And(<<"company_name", "wallet_address", "customer_id">>)>>, FALSE),
         above_threshold |-> Requirements(
           <<And(<<"company_name", "company_registration_number", "company_address",
                   "wallet_address", "customer_id">>)>>, TRUE)]],
   ZAF |->
     [currency |-> "ZAR", threshold |-> 5000,
      individual |->
        [below_threshold |-> Requirements(
           <<And(<<"full_name", "wallet_address", "customer_id">>)>>, FALSE),
         above_threshold |-> Requirements(
           <<And(<<"full_name", "wallet_address", "id_document_number",
                   "date_of_birth", "residential_address", "customer_id">>)>>, TRUE)],
      company |->
        [below_threshold |-> Requirements(
           <<And(<<"company_name", "wallet_address", "customer_id">>)>>, FALSE),
         above_threshold |-> Requirements(
           <<And(<<"company_name", "company_registration_number", "company_address",
                   "wallet_address", "customer_id">>)>>, TRUE)]],
   DEU |->
     [currency |-> "EUR", threshold |-> 0,
      individual |->
        [below_threshold |-> Requirements(
           <<And(<<"full_name", "residential_address", "wallet_address">>),
             Or(DeuOrFields)>>, TRUE),
         above_threshold |-> Requirements(
           <<And(<<"full_name", "residential_address", "wallet_address">>),
             Or(DeuOrFields)>>, TRUE)],
      company |->
        [below_threshold |-> Requirements(
           <<And(<<"company_name", "company_address", "wallet_address",
                   "lei_or_equivalent">>)>>, TRUE),
         above_threshold |-> Requirements(
           <<And(<<"company_name", "company_address", "wallet_address",
                   "lei_or_equivalent">>)>>, TRUE)]]]

\* Exchange rates times 100 (1 USD = 18.50 ZAR = 0.85 EUR)
exchangeRates == [ZAR |-> 1850, EUR |-> 85, USD |-> 100]

\* amount / exchangeRates[currency], kept as an exact fraction
convertToUSD(amount, currency) ==
  [num |-> amount * 100, den |-> exchangeRates[currency]]

\* Property names every plain object inherits from Object.prototype; a
\* bracket lookup with one of them yields a (truthy) inherited member.
ObjectPrototypeKeys == {"constructor", "toString", "hasOwnProperty", "valueOf"}
InheritedMember == [inherited |-> TRUE]

\* countryConfigs[code]
LookupConfig(code) ==
  IF code \in DOMAIN configTable THEN configTable[code]
  ELSE IF code \in ObjectPrototypeKeys THEN InheritedMember
  ELSE Undefined

(***************************************************************************)
(* extractRequiredFieldsWithOrLogic                                        *)
(***************************************************************************)
\* Mutant of AddFields: a plain array push instead of Set.add
PushFields(requiredFields, fields) == requiredFields \o fields

\* group.fields.forEach(field => requiredFields.add(field))
RECURSIVE AddFields(_, _)
AddFields(requiredFields, fields) ==
  IF fields = <<>> THEN requiredFields
  ELSE AddFields(SetAdd(requiredFields, Head(fields)), Tail(fields))

\* Mutant of ExtractGroup: the counter is incremented for every group
ExtractGroupCountingAll(acc, group) ==
  IF group.logic = "AND"
  THEN [acc EXCEPT !.requiredFields = AddFields(@, group.fields),
                   !.orGroupCounter = @ + 1]
  ELSE IF group.logic = "OR"
  THEN [acc EXCEPT
          !.orGroups = Append(@, [groupId |-> acc.orGroupCounter,
                                  fields |-> group.fields]),
          !.orGroupCounter = @ + 1]
  ELSE acc

\* Mutant of ExtractGroup: the fields of an OR group are mandatory as well
ExtractGroupOrMandatory(acc, group) ==
  IF group.logic = "AND"
  THEN [acc EXCEPT !.requiredFields = AddFields(@, group.fields)]
  ELSE IF group.logic = "OR"
  THEN [acc EXCEPT
          !.requiredFields = AddFields(@, group.fields),
          !.orGroups = Append(@, [groupId |-> acc.orGroupCounter,
                                  fields |-> group.fields]),
          !.orGroupCounter = @ + 1]
  ELSE acc

\* One iteration of requirements.forEach; acc holds the three locals.
ExtractGroup(acc, group) ==
  IF group.logic = "AND"
  THEN [acc EXCEPT !.requiredFields = AddFields(@, group.fields)]
  ELSE IF group.logic = "OR"
  THEN [acc EXCEPT
          !.orGroups = Append(@, [groupId |-> acc.orGroupCounter,
                                  fields |-> group.fields]),
          !.orGroupCounter = @ + 1]
  ELSE acc

RECURSIVE ExtractLoop(_, _)
ExtractLoop(acc, requirements) ==
  IF requirements = <<>> THEN acc
  ELSE ExtractLoop(ExtractGroup(acc, Head(requirements)), Tail(requirements))

\* orGroups is the sequence of Object.entries(orGroups): (groupId, fields)
\* pairs in insertion order.
extractRequiredFieldsWithOrLogic(requirements) ==
  LET acc == ExtractLoop([requiredFields |-> <<>>, orGroups |-> <<>>,
                          orGroupCounter |-> 0], requirements)
  IN [requiredFields |-> acc.requiredFields, orGroups |-> acc.orGroups]

(***************************************************************************)
(* analyzeFieldDifferencesWithOrGroups                                     *)
(*                                                                         *)
(* The locals fieldMatches, matchedSumsubFields, matchedCounterpartyFields *)
(* and orGroupMatches travel through the steps as the record st.           *)
(* orGroupMatches is the sequence of its (groupId, value) entries in key   *)
(* insertion order.                                                        *)
(***************************************************************************)
\* orGroupMatches[groupId] is truthy (group ids map to non-empty strings)
HasKey(map, groupId) == \E i \in 1..Len(map) : map[i].groupId = groupId

\* orGroupMatches[groupId], for a key that is present
Get(map, groupId) ==
  map[CHOOSE i \in 1..Len(map) : map[i].groupId = groupId].value

\* orGroupMatches[groupId] = value
Put(map, groupId, value) ==
  IF HasKey(map, groupId)
  THEN [i \in 1..Len(map) |->
          IF map[i].groupId = groupId THEN [map[i] EXCEPT !.value = value]
          ELSE map[i]]
  ELSE Append(map, [groupId |-> groupId, value |-> value])

EmptyMatcherState ==
  [fieldMatches |-> <<>>, matchedSumsubFields |-> <<>>,
   matchedCounterpartyFields |-> <<>>, orGroupMatches |-> <<>>]

ExactMatch(field) ==
  [sumsubField |-> field, counterpartyField |-> field, isExactMatch |-> TRUE]

OrGroupMatch(field, groupId) ==
  [sumsubField |-> field, counterpartyField |-> field, isExactMatch |-> TRUE,
   isOrGroupMatch |-> TRUE, orGroupId |-> groupId]

\* Mutant of SemanticMatch: an alias pair is recorded as an exact match
SemanticMatchExact(sumsubField, counterpartyField) ==
  [sumsubField |-> sumsubField, counterpartyField |-> counterpartyField,
   isExactMatch |-> TRUE]

SemanticMatch(sumsubField, counterpartyField) ==
  [sumsubField |-> sumsubField, counterpartyField |-> counterpartyField,
   isExactMatch |-> FALSE]

\* Mutant of Step1Field: the counterparty's field is not marked as matched
Step1FieldOneSided(st, sumsubField, counterpartySet) ==
  IF Has(counterpartySet, sumsubField)
  THEN [st EXCEPT
          !.fieldMatches = Append(@, ExactMatch(sumsubField)),
          !.matchedSumsubFields = SetAdd(@, sumsubField)]
  ELSE st

\* Step 1, one iteration of sumsubFields.forEach
Step1Field(st, sumsubField, counterpartySet) ==
  IF Has(counterpartySet, sumsubField)
  THEN [st EXCEPT
          !.fieldMatches = Append(@, ExactMatch(sumsubField)),
          !.matchedSumsubFields = SetAdd(@, sumsubField),
          !.matchedCounterpartyFields = SetAdd(@, sumsubField)]
  ELSE st

RECURSIVE Step1Loop(_, _, _)
Step1Loop(st, sumsubFields, counterpartySet) ==
  IF sumsubFields = <<>> THEN st
  ELSE Step1Loop(Step1Field(st, Head(sumsubFields), counterpartySet),
                 Tail(sumsubFields), counterpartySet)

isDeuOrGroup(orFields) ==
  /\ Len(orFields) = 4
  /\ Has(orFields, "id_document_number")
  /\ Has(orFields, "customer_id")
  /\ Has(orFields, "date_of_birth")
  /\ Has(orFields, "birthplace")

checkDeuCombinationMatch(fieldSet, orFields) ==
  Has(fieldSet, "date_of_birth") /\ Has(fieldSet, "birthplace")

\* The test of the for loop over orFields (Steps 2 and 3 both test the
\* field against matchedSumsubFields).
OrFieldResolves(st, orField, fieldSet) ==
  Has(fieldSet, orField) /\ ~Has(st.matchedSumsubFields, orField)

\* Mutant of FirstResolvingIndex: the loop has no break, the last hit wins
LastResolvingIndex(st, orFields, fieldSet) ==
  LET hits == {i \in 1..Len(orFields) : OrFieldResolves(st, orFields[i], fieldSet)}
  IN IF hits = {} THEN 0 ELSE CHOOSE i \in hits : \A j \in hits : i >= j

\* Index of the field at which the for loop breaks, 0 when it runs to the end
FirstResolvingIndex(st, orFields, fieldSet) ==
  LET hits == {i \in 1..Len(orFields) : OrFieldResolves(st, orFields[i], fieldSet)}
  IN IF hits = {} THEN 0 ELSE CHOOSE i \in hits : \A j \in hits : i <= j

\* Mutant of ResolveBySingleField: the field is claimed on Sumsub's side only
ResolveBySingleFieldOneSided(st, groupId, orField) ==
  [st EXCEPT
     !.fieldMatches = Append(@, OrGroupMatch(orField, groupId)),
     !.matchedSumsubFields = SetAdd(@, orField),
     !.orGroupMatches = Put(@, groupId, orField)]

\* The body of the for loop at the resolving field
ResolveBySingleField(st, groupId, orField) ==
  [st EXCEPT
     !.fieldMatches = Append(@, OrGroupMatch(orField, groupId)),
     !.matchedSumsubFields = SetAdd(@, orField),
     !.matchedCounterpartyFields = SetAdd(@, orField),
     !.orGroupMatches = Put(@, groupId, orField)]

CombinationLabel == "date_of_birth + birthplace"

\* The body of if (combinationMatch)
ResolveByCombination(st, groupId) ==
  [st EXCEPT
     !.fieldMatches = Append(Append(@, OrGroupMatch("date_of_birth", groupId)),
                             OrGroupMatch("birthplace", groupId)),
     !.matchedSumsubFields = SetAdd(SetAdd(@, "date_of_birth"), "birthplace"),
     !.matchedCounterpartyFields = SetAdd(SetAdd(@, "date_of_birth"), "birthplace"),
     !.orGroupMatches = Put(@, groupId, CombinationLabel)]

\* Mutant of OrGroupStep: the combination is tested before the single fields
OrGroupStepCombinationFirst(st, groupId, orFields, fieldSet) ==
  IF HasKey(st.orGroupMatches, groupId) THEN st
  ELSE IF isDeuOrGroup(orFields) /\ checkDeuCombinationMatch(fieldSet, orFields)
  THEN ResolveByCombination(st, groupId)
  ELSE LET i == FirstResolvingIndex(st, orFields, fieldSet)
       IN IF i > 0 THEN ResolveBySingleField(st, groupId, orFields[i]) ELSE st

\* Mutant of OrGroupStep: a group is examined even when the shared map
\* already has an entry under its identifier
OrGroupStepNoSkip(st, groupId, orFields, fieldSet) ==
  LET i == FirstResolvingIndex(st, orFields, fieldSet)
  IN IF i > 0 THEN ResolveBySingleField(st, groupId, orFields[i])
     ELSE IF isDeuOrGroup(orFields) /\ checkDeuCombinationMatch(fieldSet, orFields)
     THEN ResolveByCombination(st, groupId)
     ELSE st

\* One iteration of Object.entries(...).forEach in Step 2 (fieldSet is
\* sumsubSet) and in Step 3 (fieldSet is counterpartySet)
OrGroupStep(st, groupId, orFields, fieldSet) ==
  IF HasKey(st.orGroupMatches, groupId) THEN st
  ELSE LET i == FirstResolvingIndex(st, orFields, fieldSet)
       IN IF i > 0 THEN ResolveBySingleField(st, groupId, orFields[i])
          ELSE IF isDeuOrGroup(orFields) /\ checkDeuCombinationMatch(fieldSet, orFields)
          THEN ResolveByCombination(st, groupId)
          ELSE st

semanticMappings ==
  [full_name |-> <<"company_name", "registered_name">>,
   company_name |-> <<"full_name", "registered_name">>,
   registered_name |-> <<"full_name", "company_name">>,
   residential_address |-> <<"company_address", "registered_address">>,
   company_address |-> <<"residential_address", "registered_address">>,
   registered_address |-> <<"residential_address", "company_address">>,
   id_document_number |->
     <<"company_registration_number", "registration_number", "lei_or_equivalent">>,
   company_registration_number |->
     <<"id_document_number", "registration_number", "lei_or_equivalent">>,
   registration_number |->
     <<"id_document_number", "company_registration_number", "lei_or_equivalent">>,
   lei_or_equivalent |->
     <<"id_document_number", "company_registration_number", "registration_number">>,
   customer_id |-> <<"internal_id", "client_id", "account_id">>,
   internal_id |-> <<"customer_id", "client_id", "account_id">>,
   client_id |-> <<"customer_id", "internal_id", "account_id">>,
   account_id |-> <<"customer_id", "internal_id", "client_id">>,
   date_of_birth |-> <<"birth_date", "dob">>,
   birth_date |-> <<"date_of_birth", "dob">>,
   dob |-> <<"date_of_birth", "birth_date">>,
   birthplace |-> <<"birth_location", "place_of_birth">>,
   birth_location |-> <<"birthplace", "place_of_birth">>,
   place_of_birth |-> <<"birthplace", "birth_location">>,
   phone_number |-> <<"telephone", "mobile_number", "contact_number">>,
   telephone |-> <<"phone_number", "mobile_number", "contact_number">>,
   mobile_number |-> <<"phone_number", "telephone", "contact_number">>,
   contact_number |-> <<"phone_number", "telephone", "mobile_number">>,
   email_address |-> <<"email", "electronic_mail">>,
   email |-> <<"email_address", "electronic_mail">>,
   electronic_mail |-> <<"email_address", "email">>,
   wallet_address |->
     <<"crypto_address", "blockchain_address", "virtual_asset_address", "dlt_address">>,
   crypto_address |->
     <<"wallet_address", "blockchain_address", "virtual_asset_address", "dlt_address">>,
   blockchain_address |->
     <<"wallet_address", "crypto_address", "virtual_asset_address", "dlt_address">>,
   virtual_asset_address |->
     <<"wallet_address", "crypto_address", "blockchain_address", "dlt_address">>,
   dlt_address |->
     <<"wallet_address", "crypto_address", "blockchain_address", "virtual_asset_address">>,
   nationality |-> <<"citizenship", "country_of_citizenship">>,
   citizenship |-> <<"nationality", "country_of_citizenship">>,
   country_of_citizenship |-> <<"nationality", "citizenship">>,
   occupation |-> <<"profession", "job_title", "employment">>,
   profession |-> <<"occupation", "job_title", "employment">>,
   job_title |-> <<"occupation", "profession", "employment">>,
   employment |-> <<"occupation", "profession", "job_title">>,
   authorized_representative |-> <<"signatory", "authorized_person", "legal_representative">>,
   signatory |-> <<"authorized_representative", "authorized_person", "legal_representative">>,
   authorized_person |-> <<"authorized_representative", "signatory", "legal_representative">>,
   legal_representative |-> <<"authorized_representative", "signatory", "authorized_person">>]

\* semanticMappings[sumsubField] || []
PossibleMatches(sumsubField) ==
  IF sumsubField \in DOMAIN semanticMappings THEN semanticMappings[sumsubField]
  ELSE <<>>

\* possibleMatches.forEach of one sumsubField
MatchesOfField(sumsubField, counterpartyFields) ==
  LET present == SelectSeq(PossibleMatches(sumsubField),
                           LAMBDA possibleMatch : Has(counterpartyFields, possibleMatch))
  IN [i \in 1..Len(present) |-> SemanticMatch(sumsubField, present[i])]

RECURSIVE findSemanticMatches(_, _)
findSemanticMatches(sumsubFields, counterpartyFields) ==
  IF sumsubFields = <<>> THEN <<>>
  ELSE MatchesOfField(Head(sumsubFields), counterpartyFields)
       \o findSemanticMatches(Tail(sumsubFields), counterpartyFields)

\* Mutant of Step4Match: only Sumsub's field has to be unclaimed
Step4MatchAnyCounterparty(st, match) ==
  IF ~Has(st.matchedSumsubFields, match.sumsubField)
  THEN [st EXCEPT
          !.fieldMatches = Append(@, match),
          !.matchedSumsubFields = SetAdd(@, match.sumsubField),
          !.matchedCounterpartyFields = SetAdd(@, match.counterpartyField)]
  ELSE st

\* Step 4, one iteration of semanticMatches.forEach
Step4Match(st, match) ==
  IF /\ ~Has(st.matchedSumsubFields, match.sumsubField)
     /\ ~Has(st.matchedCounterpartyFields, match.counterpartyField)
  THEN [st EXCEPT
          !.fieldMatches = Append(@, match),
          !.matchedSumsubFields = SetAdd(@, match.sumsubField),
          !.matchedCounterpartyFields = SetAdd(@, match.counterpartyField)]
  ELSE st

RECURSIVE Step4Loop(_, _)
Step4Loop(st, semanticMatches) ==
  IF semanticMatches = <<>> THEN st
  ELSE Step4Loop(Step4Match(st, Head(semanticMatches)), Tail(semanticMatches))

\* Step 5: the returned FieldAnalysis
Step5Analysis(st, sumsubFields, counterpartyFields, transferDirection) ==
  IF transferDirection = "OUT"
  THEN LET missing_fields == FilterNotIn(counterpartyFields, st.matchedCounterpartyFields)
           extra_fields == FilterNotIn(sumsubFields, st.matchedSumsubFields)
       IN [missing_fields |-> missing_fields,
           extra_fields |-> extra_fields,
           matching_fields |-> st.matchedSumsubFields,
           sumsub_sends_more |-> extra_fields,
           counterparty_sends_more |-> <<>>,
           field_matches |-> st.fieldMatches,
           or_group_matches |-> st.orGroupMatches]
  ELSE LET missing_fields == FilterNotIn(sumsubFields, st.matchedSumsubFields)
           extra_fields == FilterNotIn(counterpartyFields, st.matchedCounterpartyFields)
       IN [missing_fields |-> missing_fields,
           extra_fields |-> extra_fields,
           matching_fields |-> st.matchedSumsubFields,
           sumsub_sends_more |-> <<>>,
           counterparty_sends_more |-> extra_fields,
           field_matches |-> st.fieldMatches,
           or_group_matches |-> st.orGroupMatches]

(***************************************************************************)
(* determineComplianceStatus                                               *)
(***************************************************************************)
\* Mutant of HasAll: some instead of every
HasSome(set, other) == \E i \in 1..Len(set) : Has(other, set[i])

\* Array.from(set).every(field => other.has(field))
HasAll(set, other) == \A i \in 1..Len(set) : Has(other, set[i])

\* Mutant of determineComplianceStatus: the two mismatch labels exchanged
StatusLabelsExchanged(sumsubFields, counterpartyFields, transferDirection) ==
  LET sumsubFieldsSet == NewSet(sumsubFields)
      counterpartyFieldsSet == NewSet(counterpartyFields)
      sumsubHasAll == HasAll(counterpartyFieldsSet, sumsubFieldsSet)
      counterpartyHasAll == HasAll(sumsubFieldsSet, counterpartyFieldsSet)
  IN IF sumsubHasAll /\ counterpartyHasAll
        /\ Len(sumsubFields) = Len(counterpartyFields)
     THEN "full_match"
     ELSE IF transferDirection = "OUT"
     THEN IF sumsubHasAll
          THEN IF Len(sumsubFields) > Len(counterpartyFields)
               THEN "overcompliance" ELSE "full_match"
          ELSE "sender_may_not_provide"
     ELSE IF counterpartyHasAll
          THEN IF Len(counterpartyFields) > Len(sumsubFields)
               THEN "overcompliance" ELSE "full_match"
          ELSE "counterparty_may_request_more"

determineComplianceStatus(sumsubFields, counterpartyFields, transferDirection) ==
  LET sumsubFieldsSet == NewSet(sumsubFields)
      counterpartyFieldsSet == NewSet(counterpartyFields)
      sumsubHasAll == HasAll(counterpartyFieldsSet, sumsubFieldsSet)
      counterpartyHasAll == HasAll(sumsubFieldsSet, counterpartyFieldsSet)
  IN IF sumsubHasAll /\ counterpartyHasAll
        /\ Len(sumsubFields) = Len(counterpartyFields)
     THEN "full_match"
     ELSE IF transferDirection = "OUT"
     THEN IF sumsubHasAll
          THEN IF Len(sumsubFields) > Len(counterpartyFields)
               THEN "overcompliance" ELSE "full_match"
          ELSE "counterparty_may_request_more"
     ELSE IF counterpartyHasAll
          THEN IF Len(counterpartyFields) > Len(sumsubFields)
               THEN "overcompliance" ELSE "full_match"
          ELSE "sender_may_not_provide"

(***************************************************************************)
(* calculateCompliance, step by step                                       *)
(***************************************************************************)
MatcherState ==
  [fieldMatches |-> fieldMatches, matchedSumsubFields |-> matchedSumsubFields,
   matchedCounterpartyFields |-> matchedCounterpartyFields,
   orGroupMatches |-> orGroupMatches]

SetMatcherState(st) ==
  /\ fieldMatches' = st.fieldMatches
  /\ matchedSumsubFields' = st.matchedSumsubFields
  /\ matchedCounterpartyFields' = st.matchedCounterpartyFields
  /\ orGroupMatches' = st.orGroupMatches

sumsubSet == NewSet(sumsubRequiredFields)
counterpartySet == NewSet(counterpartyRequiredFields)

\* Mutant of ThresholdMet: the threshold itself still counts as below
ThresholdExceeded(amount, config) == amount > config.threshold

\* Lines 40-41: transfer_amount >= config.threshold
ThresholdMet(amount, config) == amount >= config.threshold

\* config[customer_type].above_threshold or .below_threshold
TierRequirements(config, customerType, thresholdMet) ==
  IF thresholdMet THEN config[customerType].above_threshold
  ELSE config[customerType].below_threshold

\* One side's requirement summary in the returned object
RequirementSummary(requiredFields, reqs) ==
  [required_fields |-> requiredFields,
   recommended_fields |->
     IF "recommended_fields" \in DOMAIN reqs THEN reqs.recommended_fields ELSE <<>>,
   requirement_groups |-> reqs.requirements,
   kyc_required |-> IF "kyc_required" \in DOMAIN reqs THEN reqs.kyc_required ELSE FALSE,
   aml_required |-> IF "aml_required" \in DOMAIN reqs THEN reqs.aml_required ELSE FALSE,
   wallet_attribution |->
     IF "wallet_attribution" \in DOMAIN reqs THEN reqs.wallet_attribution ELSE FALSE]

\* Where the matcher continues once a forEach over OR groups is exhausted
PcAfterStep1 ==
  IF Len(counterpartyOrGroups) > 0 THEN "step2"
  ELSE IF Len(sumsubOrGroups) > 0 THEN "step3" ELSE "step4"

PcAfterStep2 == IF Len(sumsubOrGroups) > 0 THEN "step3" ELSE "step4"

\* Lines 32-37: both lookups, then the validation
Lookup ==
  /\ pc = "lookup"
  /\ sumsubConfig' = LookupConfig(input.sumsub_vasp_country)
  /\ counterpartyConfig' = LookupConfig(input.counterparty_vasp_country)
  /\ IF sumsubConfig' = Undefined \/ counterpartyConfig' = Undefined
     THEN pc' = "error" /\ error' = "Invalid country configuration"
     ELSE pc' = "tier" /\ error' = error
  /\ UNCHANGED <<configTable, history, input, sumsubThresholdMet, counterpartyThresholdMet, sumsubReqs,
                 counterpartyReqs, sumsubRequiredFields, counterpartyRequiredFields,
                 sumsubOrGroups, counterpartyOrGroups, fieldMatches,
                 matchedSumsubFields, matchedCounterpartyFields, orGroupMatches,
                 groupIndex, fieldAnalysis, complianceStatus, result>>

\* Lines 39-50. An inherited member of the table object has neither a
\* threshold nor a customer-type entry: amount >= undefined is false and
\* reading .below_threshold of undefined throws a TypeError.
SelectTier ==
  /\ pc = "tier"
  /\ IF sumsubConfig = InheritedMember \/ counterpartyConfig = InheritedMember
     THEN /\ pc' = "error"
          /\ error' = "TypeError"
          /\ UNCHANGED <<sumsubThresholdMet, counterpartyThresholdMet, sumsubReqs,
                         counterpartyReqs>>
     ELSE /\ sumsubThresholdMet' = ThresholdMet(input.transfer_amount, sumsubConfig)
          /\ counterpartyThresholdMet' =
               ThresholdMet(input.transfer_amount, counterpartyConfig)
          /\ sumsubReqs' =
               TierRequirements(sumsubConfig, input.customer_type, sumsubThresholdMet')
          /\ counterpartyReqs' =
               TierRequirements(counterpartyConfig, input.customer_type,
                                counterpartyThresholdMet')
          /\ pc' = "extract"
          /\ error' = error
  /\ UNCHANGED <<configTable, history, input, sumsubConfig, counterpartyConfig, sumsubRequiredFields,
                 counterpartyRequiredFields, sumsubOrGroups, counterpartyOrGroups,
                 fieldMatches, matchedSumsubFields, matchedCounterpartyFields,
                 orGroupMatches, groupIndex, fieldAnalysis, complianceStatus, result>>

\* Lines 52-54
Extract ==
  /\ pc = "extract"
  /\ LET s == extractRequiredFieldsWithOrLogic(sumsubReqs.requirements)
         c == extractRequiredFieldsWithOrLogic(counterpartyReqs.requirements)
     IN /\ sumsubRequiredFields' = s.requiredFields
        /\ sumsubOrGroups' = s.orGroups
        /\ counterpartyRequiredFields' = c.requiredFields
        /\ counterpartyOrGroups' = c.orGroups
  /\ pc' = "step1"
  /\ UNCHANGED <<configTable, history, input, sumsubConfig, counterpartyConfig, sumsubThresholdMet,
                 counterpartyThresholdMet, sumsubReqs, counterpartyReqs, fieldMatches,
                 matchedSumsubFields, matchedCounterpartyFields, orGroupMatches,
                 groupIndex, fieldAnalysis, complianceStatus, result, error>>

\* Mutant of Step1: the tracking variables are not initialised by the call
\* but keep what the previous evaluation left in them
Step1KeepingMatches ==
  /\ pc = "step1"
  /\ SetMatcherState(Step1Loop(MatcherState, sumsubRequiredFields, counterpartySet))
  /\ groupIndex' = 1
  /\ pc' = PcAfterStep1
  /\ UNCHANGED <<configTable, history, input, sumsubConfig, counterpartyConfig,
                 sumsubThresholdMet, counterpartyThresholdMet, sumsubReqs,
                 counterpartyReqs, sumsubRequiredFields, counterpartyRequiredFields,
                 sumsubOrGroups, counterpartyOrGroups, fieldAnalysis,
                 complianceStatus, result, error>>

\* Lines 152-172: the locals are initialised and Step 1 runs
Step1 ==
  /\ pc = "step1"
  /\ SetMatcherState(Step1Loop(EmptyMatcherState, sumsubRequiredFields, counterpartySet))
  /\ groupIndex' = 1
  /\ pc' = PcAfterStep1
  /\ UNCHANGED <<configTable, history, input, sumsubConfig, counterpartyConfig, sumsubThresholdMet,
                 counterpartyThresholdMet, sumsubReqs, counterpartyReqs,
                 sumsubRequiredFields, counterpartyRequiredFields, sumsubOrGroups,
                 counterpartyOrGroups, fieldAnalysis, complianceStatus, result, error>>

\* Lines 175-221: one OR group of the counterparty
Step2 ==
  /\ pc = "step2"
  /\ groupIndex <= Len(counterpartyOrGroups)
  /\ LET entry == counterpartyOrGroups[groupIndex]
     IN SetMatcherState(OrGroupStep(MatcherState, entry.groupId, entry.fields, sumsubSet))
  /\ IF groupIndex = Len(counterpartyOrGroups)
     THEN pc' = PcAfterStep2 /\ groupIndex' = 1
     ELSE pc' = pc /\ groupIndex' = groupIndex + 1
  /\ UNCHANGED <<configTable, history, input, sumsubConfig, counterpartyConfig, sumsubThresholdMet,
                 counterpartyThresholdMet, sumsubReqs, counterpartyReqs,
                 sumsubRequiredFields, counterpartyRequiredFields, sumsubOrGroups,
                 counterpartyOrGroups, fieldAnalysis, complianceStatus, result, error>>

\* Lines 224-268: one OR group of Sumsub
Step3 ==
  /\ pc = "step3"
  /\ groupIndex <= Len(sumsubOrGroups)
  /\ LET entry == sumsubOrGroups[groupIndex]
     IN SetMatcherState(OrGroupStep(MatcherState, entry.groupId, entry.fields,
                                    counterpartySet))
  /\ IF groupIndex = Len(sumsubOrGroups)
     THEN pc' = "step4" /\ groupIndex' = 1
     ELSE pc' = pc /\ groupIndex' = groupIndex + 1
  /\ UNCHANGED <<configTable, history, input, sumsubConfig, counterpartyConfig, sumsubThresholdMet,
                 counterpartyThresholdMet, sumsubReqs, counterpartyReqs,
                 sumsubRequiredFields, counterpartyRequiredFields, sumsubOrGroups,
                 counterpartyOrGroups, fieldAnalysis, complianceStatus, result, error>>

\* Lines 271-278
Step4 ==
  /\ pc = "step4"
  /\ SetMatcherState(
       Step4Loop(MatcherState,
                 findSemanticMatches(sumsubRequiredFields, counterpartyRequiredFields)))
  /\ pc' = "step5"
  /\ UNCHANGED <<configTable, history, input, sumsubConfig, counterpartyConfig, sumsubThresholdMet,
                 counterpartyThresholdMet, sumsubReqs, counterpartyReqs,
                 sumsubRequiredFields, counterpartyRequiredFields, sumsubOrGroups,
                 counterpartyOrGroups, groupIndex, fieldAnalysis, complianceStatus,
                 result, error>>

\* Lines 281-311: analyzeFieldDifferencesWithOrGroups returns
Step5 ==
  /\ pc = "step5"
  /\ fieldAnalysis' = Step5Analysis(MatcherState, sumsubRequiredFields,
                                    counterpartyRequiredFields,
                                    input.transfer_direction)
  /\ pc' = "status"
  /\ UNCHANGED <<configTable, history, input, sumsubConfig, counterpartyConfig, sumsubThresholdMet,
                 counterpartyThresholdMet, sumsubReqs, counterpartyReqs,
                 sumsubRequiredFields, counterpartyRequiredFields, sumsubOrGroups,
                 counterpartyOrGroups, fieldMatches, matchedSumsubFields,
                 matchedCounterpartyFields, orGroupMatches, groupIndex,
                 complianceStatus, result, error>>

\* Mutant of Status: the status follows the matcher's result, so that fields
\* covered by a resolved OR group or by an alias count as covered
StatusFromAnalysis ==
  /\ pc = "status"
  /\ complianceStatus' =
       IF fieldAnalysis.missing_fields = <<>> /\ fieldAnalysis.extra_fields = <<>>
       THEN "full_match"
       ELSE determineComplianceStatus(sumsubRequiredFields, counterpartyRequiredFields,
                                      input.transfer_direction)
  /\ pc' = "return"
  /\ UNCHANGED <<configTable, history, input, sumsubConfig, counterpartyConfig, sumsubThresholdMet,
                 counterpartyThresholdMet, sumsubReqs, counterpartyReqs,
                 sumsubRequiredFields, counterpartyRequiredFields, sumsubOrGroups,
                 counterpartyOrGroups, fieldMatches, matchedSumsubFields,
                 matchedCounterpartyFields, orGroupMatches, groupIndex, fieldAnalysis,
                 result, error>>

\* Lines 66-70
Status ==
  /\ pc = "status"
  /\ complianceStatus' = determineComplianceStatus(sumsubRequiredFields,
                                                   counterpartyRequiredFields,
                                                   input.transfer_direction)
  /\ pc' = "return"
  /\ UNCHANGED <<configTable, history, input, sumsubConfig, counterpartyConfig, sumsubThresholdMet,
                 counterpartyThresholdMet, sumsubReqs, counterpartyReqs,
                 sumsubRequiredFields, counterpartyRequiredFields, sumsubOrGroups,
                 counterpartyOrGroups, fieldMatches, matchedSumsubFields,
                 matchedCounterpartyFields, orGroupMatches, groupIndex, fieldAnalysis,
                 result, error>>

\* Mutant of Return: threshold_met reports the counterparty's tier
ReturnCounterpartyThreshold ==
  /\ pc = "return"
  /\ result' =
       [sumsub_requirements |-> RequirementSummary(sumsubRequiredFields, sumsubReqs),
        counterparty_requirements |->
          RequirementSummary(counterpartyRequiredFields, counterpartyReqs),
        compliance_status |-> complianceStatus,
        currency |-> sumsubConfig.currency,
        threshold_met |-> counterpartyThresholdMet,
        converted_amount |-> convertToUSD(input.transfer_amount, sumsubConfig.currency),
        field_analysis |-> fieldAnalysis]
  /\ pc' = "done"
  /\ UNCHANGED <<configTable, history, input, sumsubConfig, counterpartyConfig,
                 sumsubThresholdMet, counterpartyThresholdMet, sumsubReqs,
                 counterpartyReqs, sumsubRequiredFields, counterpartyRequiredFields,
                 sumsubOrGroups, counterpartyOrGroups, fieldMatches,
                 matchedSumsubFields, matchedCounterpartyFields, orGroupMatches,
                 groupIndex, fieldAnalysis, complianceStatus, error>>

\* Lines 73-97
Return ==
  /\ pc = "return"
  /\ result' =
       [sumsub_requirements |-> RequirementSummary(sumsubRequiredFields, sumsubReqs),
        counterparty_requirements |->
          RequirementSummary(counterpartyRequiredFields, counterpartyReqs),
        compliance_status |-> complianceStatus,
        currency |-> sumsubConfig.currency,
        threshold_met |-> sumsubThresholdMet,
        converted_amount |-> convertToUSD(input.transfer_amount, sumsubConfig.currency),
        field_analysis |-> fieldAnalysis]
  /\ pc' = "done"
  /\ UNCHANGED <<configTable, history, input, sumsubConfig, counterpartyConfig, sumsubThresholdMet,
                 counterpartyThresholdMet, sumsubReqs, counterpartyReqs,
                 sumsubRequiredFields, counterpartyRequiredFields, sumsubOrGroups,
                 counterpartyOrGroups, fieldMatches, matchedSumsubFields,
                 matchedCounterpartyFields, orGroupMatches, groupIndex, fieldAnalysis,
                 complianceStatus, error>>

(***************************************************************************)
(* Specification Spec: calculateCompliance over the configured table       *)
(***************************************************************************)
\* Country codes: the three configured ones, one that is absent from the
\* table, and one that is absent from the table but names a member every
\* object inherits.
CountryCodes == {"EU", "ZAF", "DEU", "USA", "constructor"}

\* Transfer amounts: the amounts of the test suites and both sides of each
\* configured threshold.
Amounts == {0, 5, 100, 500, 800, 999, 1000, 1001, 1500, 2000, 3000, 4999, 5000,
            5001, 7500}

TransactionInputs ==
  [sumsub_vasp_country : CountryCodes,
   counterparty_vasp_country : CountryCodes,
   customer_type : {"individual", "company"},
   transfer_direction : {"OUT", "IN"},
   transfer_amount : Amounts]

NothingComputed ==
  /\ sumsubRequiredFields = <<>>
  /\ counterpartyRequiredFields = <<>>
  /\ sumsubOrGroups = <<>>
  /\ counterpartyOrGroups = <<>>
  /\ fieldMatches = <<>>
  /\ matchedSumsubFields = <<>>
  /\ matchedCounterpartyFields = <<>>
  /\ orGroupMatches = <<>>
  /\ groupIndex = 1
  /\ fieldAnalysis = Undefined
  /\ complianceStatus = ""
  /\ result = Undefined
  /\ error = ""
  /\ configTable = countryConfigs
  /\ history = <<>>

Init ==
  /\ pc = "lookup"
  /\ input \in TransactionInputs
  /\ sumsubConfig = Undefined
  /\ counterpartyConfig = Undefined
  /\ sumsubThresholdMet = FALSE
  /\ counterpartyThresholdMet = FALSE
  /\ sumsubReqs = Undefined
  /\ counterpartyReqs = Undefined
  /\ NothingComputed

Next ==
  \/ Lookup
  \/ SelectTier
  \/ Extract
  \/ Step1
  \/ Step2
  \/ Step3
  \/ Step4
  \/ Step5
  \/ Status
  \/ Return

Spec == Init /\ [][Next]_vars

(***************************************************************************)
(* Specification SpecLive: Spec with progress. calculateCompliance is      *)
(* synchronous: a call that has started runs each of its statements until  *)
(* it returns or throws. One amount on each side of the EU threshold.      *)
(***************************************************************************)
LiveAmounts == {500, 1500}

InitLive ==
  /\ Init
  /\ input.transfer_amount \in LiveAmounts

SpecLive == InitLive /\ [][Next]_vars /\ WF_vars(Next)

(***************************************************************************)
(* Specification SpecGen: the evaluation from line 52 on, for requirement  *)
(* lists drawn from a bounded family instead of the configured table       *)
(***************************************************************************)
MaxGroups == 2

GroupPool ==
  {And(<<"full_name", "customer_id">>),
   And(<<"date_of_birth", "birthplace">>),
   And(<<"company_name", "registered_name", "id_document_number">>),
   Or(DeuOrFields),
   Or(<<"customer_id", "full_name">>)}

\* The rule set of the extraction example: [AND{a,b}, OR{c,d}, AND{b,e}, OR{f,g}]
ExampleRuleSet ==
  <<And(<<"a", "b">>), Or(<<"c", "d">>), And(<<"b", "e">>), Or(<<"f", "g">>)>>

RuleSets ==
  UNION {[1..n -> GroupPool] : n \in 0..MaxGroups} \cup {ExampleRuleSet}

\* A jurisdiction without threshold; after line 50 only its currency is read
GenConfig == [currency |-> "EUR", threshold |-> 0]

InitGen ==
  /\ pc = "extract"
  /\ \E d \in {"OUT", "IN"} :
       input = [sumsub_vasp_country |-> "A", counterparty_vasp_country |-> "B",
                customer_type |-> "individual", transfer_direction |-> d,
                transfer_amount |-> 100]
  /\ sumsubConfig = GenConfig
  /\ counterpartyConfig = GenConfig
  /\ sumsubThresholdMet = TRUE
  /\ counterpartyThresholdMet = TRUE
  /\ \E a \in RuleSets, b \in RuleSets :
       /\ sumsubReqs = Requirements(a, TRUE)
       /\ counterpartyReqs = Requirements(b, TRUE)
  /\ NothingComputed

NextGen ==
  \/ Extract
  \/ Step1
  \/ Step2
  \/ Step3
  \/ Step4
  \/ Step5
  \/ Status
  \/ Return

SpecGen == InitGen /\ [][NextGen]_vars

(***************************************************************************)
(* Specification SpecSeq: calculateCompliance called again and again. A    *)
(* new call gets its input; every other variable still holds what the      *)
(* previous call left in it until the new call assigns it.                 *)
(***************************************************************************)
MaxCalls == 3

\* Inputs of the calls: the transfers of the test suites to DEU and to EU,
\* and an origin that is not configured
SeqInputs ==
  [sumsub_vasp_country : {"EU", "ZAF", "DEU", "USA"},
   counterparty_vasp_country : {"DEU", "EU"},
   customer_type : {"individual"},
   transfer_direction : {"OUT"},
   transfer_amount : {1500}]

\* What a finished call hands to its caller: the returned object or the
\* exception
Outcome ==
  IF pc = "error" THEN [thrown |-> error] ELSE [returned |-> result]

\* The caller takes the outcome and calls calculateCompliance again
Call ==
  /\ pc \in {"done", "error"}
  /\ Len(history) + 1 < MaxCalls
  /\ history' = Append(history, [input |-> input, outcome |-> Outcome])
  /\ input' \in SeqInputs
  /\ pc' = "lookup"
  /\ UNCHANGED <<configTable, sumsubConfig, counterpartyConfig, sumsubThresholdMet,
                 counterpartyThresholdMet, sumsubReqs, counterpartyReqs,
                 sumsubRequiredFields, counterpartyRequiredFields, sumsubOrGroups,
                 counterpartyOrGroups, fieldMatches, matchedSumsubFields,
                 matchedCounterpartyFields, orGroupMatches, groupIndex, fieldAnalysis,
                 complianceStatus, result, error>>

InitSeq ==
  /\ pc = "lookup"
  /\ input \in SeqInputs
  /\ sumsubConfig = Undefined
  /\ counterpartyConfig = Undefined
  /\ sumsubThresholdMet = FALSE
  /\ counterpartyThresholdMet = FALSE
  /\ sumsubReqs = Undefined
  /\ counterpartyReqs = Undefined
  /\ NothingComputed

NextSeq ==
  \/ Lookup
  \/ SelectTier
  \/ Extract
  \/ Step1
  \/ Step2
  \/ Step3
  \/ Step4
  \/ Step5
  \/ Status
  \/ Return
  \/ Call

SpecSeq == InitSeq /\ [][NextSeq]_vars

(***************************************************************************)
(* Properties                                                              *)
(***************************************************************************)
Extracted == pc \in {"step1", "step2", "step3", "step4", "step5", "status",
                     "return", "done"}
Step1Done == pc \in {"step2", "step3", "step4", "step5", "status", "return", "done"}
Analysed == pc \in {"status", "return", "done"}
Classified == pc \in {"return", "done"}

A_ == sumsubRequiredFields
B_ == counterpartyRequiredFields
Direction == input.transfer_direction

Min(S) == CHOOSE x \in S : \A y \in S : x <= y

\* The positions of s that hold the first occurrence of their element
FirstOccurrences(s) ==
  LET keep == {i \in 1..Len(s) : \A j \in 1..(i - 1) : s[j] # s[i]}
      RECURSIVE Build(_)
      Build(i) == IF i > Len(s) THEN <<>>
                  ELSE IF i \in keep THEN <<s[i]>> \o Build(i + 1)
                  ELSE Build(i + 1)
  IN Build(1)

RECURSIVE Flatten(_)
Flatten(ss) == IF ss = <<>> THEN <<>> ELSE Head(ss) \o Flatten(Tail(ss))

GroupsWithLogic(requirements, logic) ==
  SelectSeq(requirements, LAMBDA g : g.logic = logic)

FieldsOfGroups(groups) == [i \in 1..Len(groups) |-> groups[i].fields]

\* All fields of the AND groups, in rule-set order, repetitions included
AndFields(requirements) == Flatten(FieldsOfGroups(GroupsWithLogic(requirements, "AND")))

OrFieldSet(requirements) ==
  Range(Flatten(FieldsOfGroups(GroupsWithLogic(requirements, "OR"))))

\* C1: determineComplianceStatus(A, B, direction) returns full_match when
\* B is covered by A, A by B and the lengths are equal; otherwise, for OUT,
\* overcompliance (|A| > |B|) or full_match when B is covered by A and
\* counterparty_may_request_more when it is not; for IN, overcompliance
\* (|B| > |A|) or full_match when A is covered by B and
\* sender_may_not_provide when it is not.
C1_Expected(A, B, direction) ==
  LET bInA == Range(B) \subseteq Range(A)
      aInB == Range(A) \subseteq Range(B)
  IN CASE bInA /\ aInB /\ Len(A) = Len(B) -> "full_match"
       [] direction = "OUT" /\ bInA /\ Len(A) > Len(B) -> "overcompliance"
       [] direction = "OUT" /\ bInA -> "full_match"
       [] direction = "OUT" -> "counterparty_may_request_more"
       [] direction = "IN" /\ aInB /\ Len(B) > Len(A) -> "overcompliance"
       [] direction = "IN" /\ aInB -> "full_match"
       [] OTHER -> "sender_may_not_provide"

C1_StatusTable ==
  Classified => complianceStatus = C1_Expected(A_, B_, Direction)

C1_Witness ==
  /\ Classified
  /\ Direction = "IN"
  /\ complianceStatus = "overcompliance"
  /\ Len(B_) > Len(A_)
  /\ Len(A_) > 0

\* C2: the returned compliance_status is a function of the two sides'
\* mandatory (AND) field sets and the direction alone; OR groups, their
\* resolutions and semantic matches do not enter it.
AndFieldSet(requirements) == Range(AndFields(requirements))

StatusOfSets(SA, SB, direction) ==
  IF SA = SB THEN "full_match"
  ELSE IF direction = "OUT"
  THEN IF SB \subseteq SA THEN "overcompliance" ELSE "counterparty_may_request_more"
  ELSE IF SA \subseteq SB THEN "overcompliance" ELSE "sender_may_not_provide"

C2_StatusFromAndSetsOnly ==
  pc = "done" =>
    result.compliance_status =
      StatusOfSets(AndFieldSet(sumsubReqs.requirements),
                   AndFieldSet(counterpartyReqs.requirements), Direction)

\* Every mandatory field of both sides is matched, one of them through a
\* resolved OR group, and the status still reports a mismatch.
C2_Witness ==
  /\ pc = "done"
  /\ result.field_analysis.missing_fields = <<>>
  /\ result.field_analysis.extra_fields = <<>>
  /\ result.field_analysis.or_group_matches # <<>>
  /\ A_ # <<>>
  /\ result.compliance_status = "sender_may_not_provide"

\* C3: matching_fields is the set of fields claimed on A's side; for OUT,
\* missing_fields is B's mandatory fields not claimed on B's side (B's
\* order), extra_fields is A's mandatory fields not claimed on A's side
\* (A's order), sumsub_sends_more = extra_fields, counterparty_sends_more is
\* empty; for IN the roles are exchanged and counterparty_sends_more =
\* extra_fields, sumsub_sends_more is empty.  One of the two is always empty.
ClaimedOnA(matches) == {matches[i].sumsubField : i \in 1..Len(matches)}
ClaimedOnB(matches) == {matches[i].counterpartyField : i \in 1..Len(matches)}
Unclaimed(fields, claimed) == SelectSeq(fields, LAMBDA f : f \notin claimed)

C3_DirectionalAnalysis ==
  Analysed =>
    LET fa == fieldAnalysis
        unclaimedA == Unclaimed(A_, ClaimedOnA(fa.field_matches))
        unclaimedB == Unclaimed(B_, ClaimedOnB(fa.field_matches))
    IN /\ Range(fa.matching_fields) = ClaimedOnA(fa.field_matches)
       /\ Direction = "OUT" =>
            /\ fa.missing_fields = unclaimedB
            /\ fa.extra_fields = unclaimedA
            /\ fa.sumsub_sends_more = fa.extra_fields
            /\ fa.counterparty_sends_more = <<>>
       /\ Direction = "IN" =>
            /\ fa.missing_fields = unclaimedA
            /\ fa.extra_fields = unclaimedB
            /\ fa.counterparty_sends_more = fa.extra_fields
            /\ fa.sumsub_sends_more = <<>>
       /\ fa.sumsub_sends_more = <<>> \/ fa.counterparty_sends_more = <<>>

C3_Witness ==
  /\ Analysed
  /\ Direction = "IN"
  /\ Len(fieldAnalysis.missing_fields) >= 2
  /\ fieldAnalysis.counterparty_sends_more # <<>>
  /\ fieldAnalysis.matching_fields # <<>>

\* C4: matching is 1:1: no field occurs as sumsubField in two matches and
\* no field occurs as counterpartyField in two matches.
C4_OneToOne ==
  \A i, j \in 1..Len(fieldMatches) :
    i # j => /\ fieldMatches[i].sumsubField # fieldMatches[j].sumsubField
             /\ fieldMatches[i].counterpartyField # fieldMatches[j].counterpartyField

\* C5: an OR group that is exactly {id_document_number, customer_id,
\* date_of_birth, birthplace}, facing a mandatory set with date_of_birth and
\* birthplace but neither id_document_number nor customer_id, is resolved
\* with the composite label and exactly two OR-flagged exact matches
\* (date_of_birth, birthplace).
IsOrFlagged(m) == "isOrGroupMatch" \in DOMAIN m /\ m.isOrGroupMatch

OrMatchesOfGroup(matches, groupId) ==
  SelectSeq(matches, LAMBDA m : IsOrFlagged(m) /\ m.orGroupId = groupId)

CombinationCase(entry, otherFields) ==
  /\ Range(entry.fields) = Range(DeuOrFields)
  /\ Len(entry.fields) = 4
  /\ {"date_of_birth", "birthplace"} \subseteq Range(otherFields)
  /\ "id_document_number" \notin Range(otherFields)
  /\ "customer_id" \notin Range(otherFields)

ResolvedByCombination(entry) ==
  /\ HasKey(orGroupMatches, entry.groupId)
  /\ Get(orGroupMatches, entry.groupId) = CombinationLabel
  /\ OrMatchesOfGroup(fieldMatches, entry.groupId)
       = <<OrGroupMatch("date_of_birth", entry.groupId),
           OrGroupMatch("birthplace", entry.groupId)>>

C5_CombinationRule ==
  pc \in {"step4", "step5", "status", "return", "done"} =>
    /\ \A k \in 1..Len(counterpartyOrGroups) :
         CombinationCase(counterpartyOrGroups[k], A_)
           => ResolvedByCombination(counterpartyOrGroups[k])
    /\ \A k \in 1..Len(sumsubOrGroups) :
         CombinationCase(sumsubOrGroups[k], B_)
           => ResolvedByCombination(sumsubOrGroups[k])

\* C6: an OR group of B examined in Pass 2 is resolved by the earliest field
\* of its declared order that is in A's mandatory set and not yet claimed on
\* A's side, with a single match; no other field of the group is matched
\* through it.
C6_Eligible(entry) ==
  {i \in 1..Len(entry.fields) :
     /\ entry.fields[i] \in Range(A_)
     /\ entry.fields[i] \notin ClaimedOnA(fieldMatches)}

InTable(code) == code \in DOMAIN countryConfigs

C7_ConfigurationError ==
  LET bothPresent == /\ InTable(input.sumsub_vasp_country)
                     /\ InTable(input.counterparty_vasp_country)
  IN /\ ~bothPresent =>
          /\ pc = "error" => error = "Invalid country configuration"
          /\ pc # "done"
          /\ result = Undefined
     /\ bothPresent => pc # "error" /\ error = ""

\* C8: the mandatory fields are exactly the fields of the AND groups, each
\* once, in order of first appearance; a field that occurs only in OR groups
\* is not mandatory; a field of an AND group and of an OR group is mandatory
\* and stays in the OR group's list.
C8_Side(requirements, requiredFields, orGroups) ==
  /\ requiredFields = FirstOccurrences(AndFields(requirements))
  /\ \A f \in OrFieldSet(requirements) \ AndFieldSet(requirements) :
       f \notin Range(requiredFields)
  /\ \A f \in OrFieldSet(requirements) \cap AndFieldSet(requirements) :
       /\ f \in Range(requiredFields)
       /\ \E k \in 1..Len(orGroups) : f \in Range(orGroups[k].fields)
  /\ requirements = ExampleRuleSet => requiredFields = <<"a", "b", "e">>

C8_MandatoryFields ==
  Extracted =>
    /\ C8_Side(sumsubReqs.requirements, sumsubRequiredFields, sumsubOrGroups)
    /\ C8_Side(counterpartyReqs.requirements, counterpartyRequiredFields,
               counterpartyOrGroups)

\* One side has a repeated AND field and fields that only OR groups name,
\* the other a field that an AND group and an OR group both name.
C8_Witness ==
  /\ Extracted
  /\ sumsubReqs.requirements = ExampleRuleSet
  /\ sumsubRequiredFields = <<"a", "b", "e">>
  /\ Len(AndFields(sumsubReqs.requirements)) > Len(sumsubRequiredFields)
  /\ OrFieldSet(sumsubReqs.requirements) \ AndFieldSet(sumsubReqs.requirements) # {}
  /\ OrFieldSet(counterpartyReqs.requirements)
       \cap AndFieldSet(counterpartyReqs.requirements) # {}

\* C9: the k-th OR group of a rule set (k = 0, 1, ...) gets identifier k
\* whatever AND groups precede it, with its field list verbatim; there are
\* as many identifiers as OR groups; each side numbers from 0.
C9_Side(requirements, orGroups) ==
  LET ors == GroupsWithLogic(requirements, "OR")
  IN /\ Len(orGroups) = Len(ors)
     /\ \A k \in 1..Len(ors) :
          /\ orGroups[k].groupId = k - 1
          /\ orGroups[k].fields = ors[k].fields

C9_OrGroupNumbering ==
  Extracted =>
    /\ C9_Side(sumsubReqs.requirements, sumsubOrGroups)
    /\ C9_Side(counterpartyReqs.requirements, counterpartyOrGroups)

\* Two OR groups behind AND groups on one side, one OR group behind an AND
\* group on the other: both sides start at 0.
C9_Witness ==
  /\ Extracted
  /\ sumsubReqs.requirements = ExampleRuleSet
  /\ Len(sumsubOrGroups) = 2
  /\ sumsubOrGroups[2].groupId = 1
  /\ Len(counterpartyReqs.requirements) = 2
  /\ counterpartyReqs.requirements[1].logic = "AND"
  /\ Len(counterpartyOrGroups) = 1
  /\ counterpartyOrGroups[1].groupId = 0

\* C10: if the two mandatory sets are equal as sets then, for both
\* directions, Pass 1 gives every mandatory field an exact, non-alternative
\* match to itself, missing_fields and extra_fields are empty and the status
\* is full_match.
C10_ExactMatchSymmetry ==
  Range(A_) = Range(B_) =>
    /\ Step1Done =>
         /\ Len(fieldMatches) >= Len(A_)
         /\ \A i \in 1..Len(A_) : fieldMatches[i] = ExactMatch(A_[i])
    /\ Analysed =>
         /\ fieldAnalysis.missing_fields = <<>>
         /\ fieldAnalysis.extra_fields = <<>>
    /\ Classified => complianceStatus = "full_match"
    /\ pc = "done" => result.compliance_status = "full_match"

C10_Witness ==
  /\ pc = "done"
  /\ Range(A_) = Range(B_)
  /\ Len(A_) >= 3
  /\ A_ # B_
  /\ Direction = "IN"
  /\ result.compliance_status = "full_match"

NoOrGroups ==
  /\ GroupsWithLogic(sumsubReqs.requirements, "OR") = <<>>
  /\ GroupsWithLogic(counterpartyReqs.requirements, "OR") = <<>>

\* The fields of a that are not in b, in a's order
Without(a, b) == SelectSeq(a, LAMBDA f : f \notin Range(b))

\* C11: when neither side has an OR group and B's mandatory set is a proper
\* subset of A's, an OUT evaluation returns overcompliance with
\* sumsub_sends_more = A \ B and empty missing_fields, and an IN evaluation
\* of the same sets returns sender_may_not_provide with missing_fields =
\* A \ B (A's unclaimed fields) and empty counterparty_sends_more.
C11_DirectionInversion ==
  (/\ pc = "done"
   /\ NoOrGroups
   /\ Range(B_) \subseteq Range(A_)
   /\ Range(B_) # Range(A_)) =>
    IF Direction = "OUT"
    THEN /\ result.compliance_status = "overcompliance"
         /\ result.field_analysis.sumsub_sends_more = Without(A_, B_)
         /\ result.field_analysis.missing_fields = <<>>
    ELSE /\ result.compliance_status = "sender_may_not_provide"
         /\ result.field_analysis.missing_fields = Without(A_, B_)
         /\ result.field_analysis.missing_fields =
              Unclaimed(A_, ClaimedOnA(result.field_analysis.field_matches))
         /\ result.field_analysis.counterparty_sends_more = <<>>

C11_Witness ==
  /\ pc = "done"
  /\ NoOrGroups
  /\ Direction = "IN"
  /\ B_ # <<>>
  /\ Range(B_) \subseteq Range(A_)
  /\ Range(B_) # Range(A_)
  /\ result.compliance_status = "sender_may_not_provide"
  /\ Len(result.field_analysis.missing_fields) = Len(A_) - Len(B_)

DeuToDeu ==
  /\ input.sumsub_vasp_country = "DEU"
  /\ input.counterparty_vasp_country = "DEU"
  /\ input.customer_type = "individual"
  /\ input.transfer_amount > 0

C12_Side(summary) ==
  LET orGroups == GroupsWithLogic(summary.requirement_groups, "OR")
  IN /\ Len(orGroups) = 1
     /\ Len(orGroups[1].fields) = 4
     /\ Range(orGroups[1].fields) =
          {"id_document_number", "customer_id", "date_of_birth", "birthplace"}

\* C12: an individual transfer from DEU to DEU with a positive amount
\* returns, for either direction, threshold_met = true, the origin's
\* required_fields [full_name, residential_address, wallet_address], on
\* each side exactly one OR group, of the four fields id_document_number,
\* customer_id, date_of_birth and birthplace, and the status full_match.
C12_DeuToDeu ==
  DeuToDeu =>
    /\ pc # "error"
    /\ pc = "done" =>
         /\ result.threshold_met = TRUE
         /\ result.sumsub_requirements.required_fields =
              <<"full_name", "residential_address", "wallet_address">>
         /\ C12_Side(result.sumsub_requirements)
         /\ C12_Side(result.counterparty_requirements)
         /\ result.compliance_status = "full_match"

C12_Witness ==
  /\ pc = "done"
  /\ DeuToDeu
  /\ Direction = "IN"
  /\ result.compliance_status = "full_match"
  /\ Len(result.sumsub_requirements.requirement_groups) = 2

TierChosen == pc \notin {"lookup", "tier", "error"}

C13_Tier(code, customerType, amount) ==
  IF amount >= countryConfigs[code].threshold
  THEN countryConfigs[code][customerType].above_threshold
  ELSE countryConfigs[code][customerType].below_threshold

C14_KycOnBothSides ==
  (/\ pc = "done"
   /\ input = [sumsub_vasp_country |-> "EU", counterparty_vasp_country |-> "ZAF",
               customer_type |-> "individual", transfer_direction |-> "OUT",
               transfer_amount |-> 1500]) =>
    /\ result.sumsub_requirements.kyc_required = TRUE
    /\ result.counterparty_requirements.kyc_required = TRUE

\* C15: an individual transfer with DEU as origin returns birthplace among
\* the origin's recommended_fields.
C15_DeuRecommendsBirthplace ==
  (/\ pc = "done"
   /\ input.sumsub_vasp_country = "DEU"
   /\ input.customer_type = "individual") =>
    Has(result.sumsub_requirements.recommended_fields, "birthplace")

\* C16: an OUT evaluation returns full_match, overcompliance or
\* counterparty_may_request_more and an IN evaluation returns full_match,
\* overcompliance or sender_may_not_provide.
C16_DirectionTyped ==
  LET allowed == IF Direction = "OUT"
                 THEN {"full_match", "overcompliance", "counterparty_may_request_more"}
                 ELSE {"full_match", "overcompliance", "sender_may_not_provide"}
  IN /\ Classified => complianceStatus \in allowed
     /\ pc = "done" => result.compliance_status \in allowed

C16_Witness ==
  /\ pc = "done"
  /\ Direction = "OUT"
  /\ result.compliance_status = "counterparty_may_request_more"
  /\ \E i \in 1..Len(A_) : ~Has(B_, A_[i])

Finished == pc \in {"done", "error"}

\* C17: in a sequence of calls, failing ones included, a call with the
\* input of an earlier call has the outcome (returned object or exception)
\* of that earlier call, whatever was evaluated in between, and the
\* jurisdiction table has the content it had before the first call.
C17_Stateless ==
  /\ configTable = countryConfigs
  /\ \A i, j \in 1..Len(history) :
       history[i].input = history[j].input => history[i].outcome = history[j].outcome
  /\ Finished =>
       \A i \in 1..Len(history) :
         history[i].input = input => history[i].outcome = Outcome

C17_Witness ==
  /\ pc = "done"
  /\ Len(history) = 2
  /\ history[1].input = input
  /\ history[1].outcome = [returned |-> result]
  /\ history[2].outcome = [thrown |-> "Invalid country configuration"]
  /\ result.field_analysis.or_group_matches # <<>>

\* The group of Pass 2 under examination has been resolved by this step, by
\* a single field
C18_ResolvedBySingleField ==
  LET id == counterpartyOrGroups[groupIndex].groupId
  IN /\ pc = "step2"
     /\ ~HasKey(orGroupMatches, id)
     /\ HasKey(orGroupMatches', id)
     /\ Get(orGroupMatches', id) # CombinationLabel

C18_OneMatch ==
  C18_ResolvedBySingleField =>
    LET entry == counterpartyOrGroups[groupIndex]
        f == Get(orGroupMatches', entry.groupId)
    IN /\ f \in Range(entry.fields)
       /\ fieldMatches' =
            Append(fieldMatches,
                   [sumsubField |-> f, counterpartyField |-> f, isExactMatch |-> TRUE,
                    isOrGroupMatch |-> TRUE, orGroupId |-> entry.groupId])
       /\ Has(matchedSumsubFields', f)
       /\ Has(matchedCounterpartyFields', f)
       /\ Len(OrMatchesOfGroup(fieldMatches', entry.groupId)) = 1

\* A group with a single-field resolution gets no further match
C18_NoOtherField ==
  pc \in {"step2", "step3", "step4"} =>
    \A i \in 1..Len(orGroupMatches) :
      orGroupMatches[i].value # CombinationLabel =>
        OrMatchesOfGroup(fieldMatches', orGroupMatches[i].groupId) =
          OrMatchesOfGroup(fieldMatches, orGroupMatches[i].groupId)

\* Pass 2 examines the group [id_document_number, customer_id,
\* date_of_birth, birthplace] of B; customer_id is mandatory for A and not for
\* B, id_document_number is not mandatory for A
C18_ExampleCase ==
  /\ pc = "step2"
  /\ counterpartyOrGroups[groupIndex].fields = DeuOrFields
  /\ Has(A_, "customer_id")
  /\ ~Has(A_, "id_document_number")
  /\ ~Has(B_, "customer_id")

C18_ExampleResolution ==
  LET id == counterpartyOrGroups[groupIndex].groupId
  IN HasKey(orGroupMatches', id) /\ Get(orGroupMatches', id) = "customer_id"

\* C18: an OR group of B resolved in Pass 2 by a single field f gets exactly
\* one match, (f, f, exact, alternative, the group's identifier); f is claimed
\* on both sides, or_group_matches[identifier] = f and no other field is
\* matched through the group. For A with customer_id and without
\* id_document_number and B's group [id_document_number, customer_id,
\* date_of_birth, birthplace], customer_id not mandatory for B and not
\* claimed by an earlier OR group of B, the resolution is customer_id.
C18_SingleFieldResolution ==
  [][/\ C18_OneMatch
     /\ C18_NoOtherField
     /\ (C18_ExampleCase /\ ~Has(matchedSumsubFields, "customer_id"))
          => C18_ExampleResolution]_vars

\* C18 as stated: the resolution is customer_id whenever A has customer_id
\* and not id_document_number and customer_id is not mandatory for B.
C18_AsStated ==
  [][/\ C18_OneMatch
     /\ C18_NoOtherField
     /\ C18_ExampleCase => C18_ExampleResolution]_vars

C18_Witness ==
  /\ pc = "step4"
  /\ Has(A_, "customer_id")
  /\ ~Has(A_, "id_document_number")
  /\ ~Has(B_, "customer_id")
  /\ sumsubOrGroups = <<>>
  /\ \E k \in 1..Len(counterpartyOrGroups) :
       /\ counterpartyOrGroups[k].fields = DeuOrFields
       /\ HasKey(orGroupMatches, counterpartyOrGroups[k].groupId)
       /\ Get(orGroupMatches, counterpartyOrGroups[k].groupId) = "customer_id"
       /\ Len(OrMatchesOfGroup(fieldMatches, counterpartyOrGroups[k].groupId)) = 1
  /\ Has(matchedSumsubFields, "customer_id")
  /\ Has(matchedCounterpartyFields, "customer_id")

\* The positions of the group's fields that are in B's mandatory set and not
\* in the given claimed set
C19_Eligible(entry, claimed) ==
  {i \in 1..Len(entry.fields) :
     /\ entry.fields[i] \in Range(B_)
     /\ entry.fields[i] \notin Range(claimed)}

C19_Examined ==
  /\ pc = "step3"
  /\ ~HasKey(orGroupMatches, sumsubOrGroups[groupIndex].groupId)

\* C19: an OR group of A examined in Pass 3 is resolved by the earliest
\* field of its declared order that is in B's mandatory set and not claimed
\* on B's side, and the single-field scan leaves it unresolved iff there is
\* no such field. Through Passes 1 to 3 the claimed sets of the two sides
\* are equal, so the test against A's claimed set selects the same fields.
C19_Pass3MirrorsPass2 ==
  /\ [](pc \in {"step2", "step3", "step4"} =>
          Range(matchedSumsubFields) = Range(matchedCounterpartyFields))
  /\ [](C19_Examined =>
          C19_Eligible(sumsubOrGroups[groupIndex], matchedCounterpartyFields) =
            C19_Eligible(sumsubOrGroups[groupIndex], matchedSumsubFields))
  /\ [][C19_Examined =>
          LET entry == sumsubOrGroups[groupIndex]
              eligible == C19_Eligible(entry, matchedCounterpartyFields)
          IN IF eligible # {}
             THEN /\ HasKey(orGroupMatches', entry.groupId)
                  /\ Get(orGroupMatches', entry.groupId) = entry.fields[Min(eligible)]
                  /\ fieldMatches' =
                       Append(fieldMatches,
                              OrGroupMatch(entry.fields[Min(eligible)], entry.groupId))
             ELSE \/ /\ ~HasKey(orGroupMatches', entry.groupId)
                     /\ fieldMatches' = fieldMatches
                  \/ /\ HasKey(orGroupMatches', entry.groupId)
                     /\ Get(orGroupMatches', entry.groupId) = CombinationLabel]_vars

\* A's group [id_document_number, customer_id, date_of_birth, birthplace]
\* facing a mandatory set of B with customer_id and without
\* id_document_number; B has no OR group.
C19_Witness ==
  /\ pc = "step4"
  /\ counterpartyOrGroups = <<>>
  /\ Len(sumsubOrGroups) >= 1
  /\ sumsubOrGroups[1].fields = DeuOrFields
  /\ Has(B_, "customer_id")
  /\ ~Has(B_, "id_document_number")
  /\ HasKey(orGroupMatches, sumsubOrGroups[1].groupId)
  /\ Get(orGroupMatches, sumsubOrGroups[1].groupId) = "customer_id"
  /\ Has(matchedCounterpartyFields, "customer_id")

Max2(a, b) == IF a >= b THEN a ELSE b

C20_Collision ==
  /\ pc = "step3"
  /\ HasKey(orGroupMatches, sumsubOrGroups[groupIndex].groupId)

\* C20: an OR group of A whose identifier has an entry in the shared map
\* when Pass 3 reaches it (B's group with that identifier was resolved in
\* Pass 2) is skipped and gets no match, whatever its fields; the map keeps
\* one entry per identifier, Pass 3 leaves the entries of Pass 2 as they
\* are, and the map never has more entries than the larger of the two
\* sides' OR-group counts.
C20_IdentifierCollision ==
  /\ [](/\ Len(orGroupMatches) <=
             Max2(Len(sumsubOrGroups), Len(counterpartyOrGroups))
        /\ \A i, j \in 1..Len(orGroupMatches) :
             orGroupMatches[i].groupId = orGroupMatches[j].groupId => i = j
        /\ pc = "done" => result.field_analysis.or_group_matches = orGroupMatches)
  /\ [][C20_Collision =>
          /\ fieldMatches' = fieldMatches
          /\ matchedSumsubFields' = matchedSumsubFields
          /\ matchedCounterpartyFields' = matchedCounterpartyFields
          /\ orGroupMatches' = orGroupMatches]_vars
  /\ [][pc = "step3" =>
          \A i \in 1..Len(orGroupMatches) :
            /\ orGroupMatches'[i] = orGroupMatches[i]
            /\ OrMatchesOfGroup(fieldMatches', orGroupMatches[i].groupId) =
                 OrMatchesOfGroup(fieldMatches, orGroupMatches[i].groupId)]_vars

\* Both sides have a group 0; B's was resolved in Pass 2, A's has a field
\* that is mandatory for B and unclaimed after Pass 3.
C20_Witness ==
  /\ pc = "step4"
  /\ Len(sumsubOrGroups) >= 1
  /\ Len(counterpartyOrGroups) >= 1
  /\ Len(orGroupMatches) = 1
  /\ orGroupMatches[1].groupId = sumsubOrGroups[1].groupId
  /\ orGroupMatches[1].value \in Range(counterpartyOrGroups[1].fields)
  /\ \E f \in Range(sumsubOrGroups[1].fields) :
       /\ f \in Range(B_)
       /\ f \notin Range(matchedCounterpartyFields)
       /\ f \notin Range(matchedSumsubFields)
  /\ \A i \in 1..Len(fieldMatches) :
       fieldMatches[i].sumsubField \notin Range(sumsubOrGroups[1].fields)
         \/ fieldMatches[i].sumsubField = orGroupMatches[1].value

\* The semantic matches of the fields of A, taken in order: a field that is
\* unclaimed gets its first alias that is mandatory for B and unclaimed
RECURSIVE C21_Expected(_, _, _)
C21_Expected(fields, claimedA, claimedB) ==
  IF fields = <<>> THEN <<>>
  ELSE LET a == Head(fields)
           aliases == PossibleMatches(a)
           free == {i \in 1..Len(aliases) :
                      aliases[i] \in Range(B_) /\ aliases[i] \notin claimedB}
       IN IF a \in claimedA \/ free = {}
          THEN C21_Expected(Tail(fields), claimedA, claimedB)
          ELSE <<[sumsubField |-> a, counterpartyField |-> aliases[Min(free)],
                  isExactMatch |-> FALSE]>>
               \o C21_Expected(Tail(fields), claimedA \cup {a},
                               claimedB \cup {aliases[Min(free)]})

\* C21: Pass 4 takes the fields of A that Passes 1 to 3 left unclaimed, in
\* A's order, and matches each to its first alias, in the alias table's
\* order, that is mandatory for B and unclaimed on B's side, as a non-exact
\* match without OR-group flag; both fields become claimed; a field without
\* such an alias and a field claimed before get no match, and only aliases
\* of the table are paired.
C21_SemanticPass ==
  [][pc = "step4" =>
       LET expected == C21_Expected(A_, Range(matchedSumsubFields),
                                    Range(matchedCounterpartyFields))
       IN /\ fieldMatches' = fieldMatches \o expected
          /\ Range(matchedSumsubFields') =
               Range(matchedSumsubFields)
                 \cup {expected[i].sumsubField : i \in 1..Len(expected)}
          /\ Range(matchedCounterpartyFields') =
               Range(matchedCounterpartyFields)
                 \cup {expected[i].counterpartyField : i \in 1..Len(expected)}
          /\ \A i \in 1..Len(expected) :
               /\ ~IsOrFlagged(expected[i])
               /\ Has(PossibleMatches(expected[i].sumsubField),
                      expected[i].counterpartyField)
               /\ expected[i].sumsubField \notin Range(matchedSumsubFields)
               /\ expected[i].counterpartyField
                    \notin Range(matchedCounterpartyFields)]_vars

\* company_name is matched to full_name; registered_name, whose only alias
\* in B is full_name as well, stays without a match.
C21_Witness ==
  /\ pc = "step5"
  /\ \E i \in 1..Len(fieldMatches) :
       fieldMatches[i] = [sumsubField |-> "company_name",
                          counterpartyField |-> "full_name", isExactMatch |-> FALSE]
  /\ Has(A_, "registered_name")
  /\ ~Has(matchedSumsubFields, "registered_name")
  /\ ~Has(B_, "company_name")

\* C22: every evaluation ends, after finitely many steps, with a returned
\* result or with a raised configuration error.
C22_Terminates ==
  <>(\/ pc = "done"
     \/ pc = "error" /\ error = "Invalid country configuration")

\* The step resolves the group under examination with the composite label
C23_CombinationFires ==
  LET entry == IF pc = "step2" THEN counterpartyOrGroups[groupIndex]
               ELSE sumsubOrGroups[groupIndex]
  IN /\ pc \in {"step2", "step3"}
     /\ ~HasKey(orGroupMatches, entry.groupId)
     /\ HasKey(orGroupMatches', entry.groupId)
     /\ Get(orGroupMatches', entry.groupId) = CombinationLabel

C23_HasMatch(matches, field) ==
  \E i \in 1..Len(matches) :
    matches[i].sumsubField = field /\ matches[i].counterpartyField = field

C24_ReportedListNonEmpty ==
  pc = "done" =>
    LET status == result.compliance_status
        analysis == result.field_analysis
    IN /\ status \in {"counterparty_may_request_more", "sender_may_not_provide"}
            => analysis.missing_fields # <<>>
       /\ (status = "overcompliance" /\ Direction = "OUT")
            => analysis.sumsub_sends_more # <<>>
       /\ (status = "overcompliance" /\ Direction = "IN")
            => analysis.counterparty_sends_more # <<>>

ProperSubset(S, T) == S \subseteq T /\ S # T

\* C25: the mandatory lists have no duplicates; the status is full_match iff
\* the two mandatory sets are equal (so full_match is only returned by the
\* first test, with both coverages and equal lengths), and overcompliance
\* iff the receiving side's set is a proper subset of the sending side's:
\* B of A for OUT, A of B for IN.
C25_FullMatchIffEqual ==
  Classified =>
    /\ Len(A_) = Cardinality(Range(A_))
    /\ Len(B_) = Cardinality(Range(B_))
    /\ complianceStatus = "full_match" <=> Range(A_) = Range(B_)
    /\ complianceStatus = "full_match" => Len(A_) = Len(B_)
    /\ complianceStatus = "overcompliance" <=>
         IF Direction = "OUT" THEN ProperSubset(Range(B_), Range(A_))
         ELSE ProperSubset(Range(A_), Range(B_))
    /\ pc = "done" => result.compliance_status = complianceStatus

C25_Witness ==
  /\ pc = "done"
  /\ Direction = "IN"
  /\ result.compliance_status = "overcompliance"
  /\ A_ # <<>>
  /\ ProperSubset(Range(A_), Range(B_))
  /\ Len(sumsubReqs.requirements) = 2
  /\ sumsubReqs.requirements[1] = sumsubReqs.requirements[2]

\* The status of the swapped evaluation that corresponds to a status
C26_Renamed(status) ==
  IF status = "counterparty_may_request_more" THEN "sender_may_not_provide"
  ELSE IF status = "sender_may_not_provide" THEN "counterparty_may_request_more"
  ELSE status

\* C26: determineComplianceStatus(A, B, OUT) and
\* determineComplianceStatus(B, A, IN) are both full_match, or both
\* overcompliance, or the first is counterparty_may_request_more and the
\* second sender_may_not_provide.
C26_SwapSymmetry ==
  Classified =>
    IF Direction = "OUT"
    THEN /\ determineComplianceStatus(B_, A_, "IN") = C26_Renamed(complianceStatus)
         /\ complianceStatus # "sender_may_not_provide"
    ELSE /\ determineComplianceStatus(B_, A_, "OUT") = C26_Renamed(complianceStatus)
         /\ complianceStatus # "counterparty_may_request_more"

C26_Witness ==
  /\ pc = "done"
  /\ Direction = "OUT"
  /\ result.compliance_status = "counterparty_may_request_more"
  /\ determineComplianceStatus(B_, A_, "IN") = "sender_may_not_provide"
  /\ ProperSubset(Range(A_), Range(B_))

\* C27: in the returned analysis missing_fields and extra_fields are
\* disjoint, neither has a field of matching_fields, and a field that is
\* mandatory on both sides is in matching_fields and in neither list.
C27_Disjoint ==
  Analysed =>
    LET missing == Range(fieldAnalysis.missing_fields)
        extra == Range(fieldAnalysis.extra_fields)
        matching == Range(fieldAnalysis.matching_fields)
    IN /\ missing \cap extra = {}
       /\ missing \cap matching = {}
       /\ extra \cap matching = {}
       /\ \A f \in Range(A_) \cap Range(B_) :
            f \in matching /\ f \notin missing /\ f \notin extra
       /\ pc = "done" => result.field_analysis = fieldAnalysis

\* Both lists are non-empty, a field is mandatory on both sides and another
\* one is matched through an alias.
C27_Witness ==
  /\ pc = "done"
  /\ result.field_analysis.missing_fields # <<>>
  /\ result.field_analysis.extra_fields # <<>>
  /\ Range(A_) \cap Range(B_) # {}
  /\ \E i \in 1..Len(fieldMatches) : ~fieldMatches[i].isExactMatch

C28_OrFieldsOf(orGroups) == UNION {Range(orGroups[k].fields) : k \in 1..Len(orGroups)}

C28_GroupFields(orGroups, groupId) ==
  UNION {Range(orGroups[k].fields) :
           k \in {j \in 1..Len(orGroups) : orGroups[j].groupId = groupId}}

\* C28: every match has its sumsubField in A's mandatory set or in an OR
\* group of A and its counterpartyField in B's mandatory set or in an OR
\* group of B; an exact match pairs a field with itself, a non-exact match
\* pairs two different mandatory fields; every value of or_group_matches is
\* the composite label or a field of a group that has its identifier on one
\* of the sides.
C28_MatchesWithinRequirements ==
  Step1Done =>
    /\ \A i \in 1..Len(fieldMatches) :
         LET m == fieldMatches[i]
         IN /\ m.sumsubField \in Range(A_) \cup C28_OrFieldsOf(sumsubOrGroups)
            /\ m.counterpartyField
                 \in Range(B_) \cup C28_OrFieldsOf(counterpartyOrGroups)
            /\ m.isExactMatch => m.sumsubField = m.counterpartyField
            /\ ~m.isExactMatch =>
                 /\ m.sumsubField # m.counterpartyField
                 /\ m.sumsubField \in Range(A_)
                 /\ m.counterpartyField \in Range(B_)
    /\ \A i \in 1..Len(orGroupMatches) :
         \/ orGroupMatches[i].value = CombinationLabel
         \/ orGroupMatches[i].value
              \in C28_GroupFields(sumsubOrGroups, orGroupMatches[i].groupId)
                    \cup C28_GroupFields(counterpartyOrGroups,
                                         orGroupMatches[i].groupId)
    /\ pc = "done" =>
         /\ result.field_analysis.field_matches = fieldMatches
         /\ result.field_analysis.or_group_matches = orGroupMatches

\* A match through A's OR group puts a field into matching_fields that is
\* not mandatory for A; another match is through an alias.
C28_Witness ==
  /\ pc = "done"
  /\ \E i \in 1..Len(result.field_analysis.matching_fields) :
       result.field_analysis.matching_fields[i] \notin Range(A_)
  /\ \E i \in 1..Len(fieldMatches) : ~fieldMatches[i].isExactMatch
  /\ orGroupMatches # <<>>

\* C29: threshold_met is (amount >= the origin's threshold) and currency is
\* the origin's currency, whatever the counterparty is.
C29_OriginOnly ==
  pc = "done" =>
    /\ result.threshold_met =
         (input.transfer_amount >= countryConfigs[input.sumsub_vasp_country].threshold)
    /\ result.currency = countryConfigs[input.sumsub_vasp_country].currency

\* threshold_met is false while the counterparty's above-threshold rule set
\* is the one applied
C29_Witness ==
  /\ pc = "done"
  /\ result.threshold_met = FALSE
  /\ input.transfer_amount >= countryConfigs[input.counterparty_vasp_country].threshold
  /\ counterpartyReqs =
       countryConfigs[input.counterparty_vasp_country][input.customer_type].above_threshold
  /\ result.counterparty_requirements.kyc_required = TRUE
  /\ result.currency # countryConfigs[input.counterparty_vasp_country].currency

====
